---- MODULE Spec2Model ----
(***************************************************************************)
(* Model of controller-core's board support code:                          *)
(*   src/src/board/sr04.rs     HC-SR04 ultrasonic sensor driver (Sr04)     *)
(*   src/src/board/lrtimer.rs  low resolution timer on TIM2 (LrTimer)      *)
(*                                                                         *)
(* 32-bit quantities (instants, the update count, millisecond values) are  *)
(* kept at their width.  TLC's integers are 32-bit signed, so a u32 is a   *)
(* pair <<hi, lo>> of 16-bit limbs, value hi * 2^16 + lo.                  *)
(***************************************************************************)
EXTENDS Integers, Sequences, FiniteSets, TLC

(***************************************************************************)
(* u32 arithmetic on 16-bit limbs                                          *)
(***************************************************************************)
W16 == 256 * 256

HALF16 == W16 \div 2

\* the u32 of a natural below 2^31
U32Of(n) == <<n \div W16, n % W16>>

U32_MAX == <<W16 - 1, W16 - 1>>

U32_ZERO == <<0, 0>>

\* u32::wrapping_add
wrapping_add(a, b) ==
    LET lo == a[2] + b[2]
        hi == a[1] + b[1] + (lo \div W16)
    IN  <<hi % W16, lo % W16>>

\* u32::wrapping_sub
wrapping_sub(a, b) ==
    LET lo == a[2] - b[2]
        borrow == IF lo < 0 THEN 1 ELSE 0
        hi == a[1] - b[1] - borrow
    IN  <<(hi + W16) % W16, (lo + W16) % W16>>

\* a < b, a <= b on u32
U32Lt(a, b) == a[1] < b[1] \/ (a[1] = b[1] /\ a[2] < b[2])

U32Le(a, b) == a = b \/ U32Lt(a, b)

\* u32::wrapping_mul by a factor k <= 2^15
wrapping_mul(a, k) ==
    LET lo == a[2] * k
        hi == a[1] * k + (lo \div W16)
    IN  <<hi % W16, lo % W16>>

\* u32::checked_mul by a factor k <= 2^15: ok is FALSE on overflow
checked_mul(a, k) ==
    LET lo == a[2] * k
        hi == a[1] * k + (lo \div W16)
    IN  [ok |-> hi < W16, v |-> <<hi % W16, lo % W16>>]

(***************************************************************************)
(* sr04.rs: constants                                                      *)
(***************************************************************************)
\* pub const TIMEOUT: Microseconds = Microseconds(60_000)
TIMEOUT == 60000

\* pub const MINIMUM_ECHO_WIDTH: Microseconds = Microseconds(200)
MINIMUM_ECHO_WIDTH == 200

\* pub const SCALING_FACTOR: Distance = distance!(0.00017303): the U16F16
\* nearest to 0.00017303 has the bits round(0.00017303 * 2^16) = 11
SCALING_FACTOR == 11

\* LrTimer's Clock::SCALING_FACTOR is 1/1000 s per tick, Microseconds is
\* 1/1000000: one low resolution tick is 1000 microseconds
LR_MICROS_PER_TICK == 1000

\* the high resolution clock counts microseconds
HR_MICROS_PER_TICK == 1

(***************************************************************************)
(* embedded_time as sr04.rs uses it                                        *)
(***************************************************************************)
\* Instant's ordering: a is not earlier than b when the wrapping difference
\* is at most u32::MAX / 2.  `a - b` is defined only then.
NotEarlier(a, b) == wrapping_sub(a, b)[1] < HALF16

\* `(a - b).try_into().unwrap_or(TIMEOUT)`: the tick difference scaled to
\* microseconds with a checked multiplication, TIMEOUT when it overflows
micros_or_timeout(a, b, perTick) ==
    LET m == checked_mul(wrapping_sub(a, b), perTick)
    IN  IF m.ok THEN m.v ELSE U32Of(TIMEOUT)

(***************************************************************************)
(* sr04.rs: the driver's state                                             *)
(***************************************************************************)
Idle == [tag |-> "Idle", start |-> U32_ZERO, sub |-> "None", rise |-> U32_ZERO]

Measuring(start, sub, rise) ==
    [tag |-> "Measuring", start |-> start, sub |-> sub, rise |-> rise]

NoMeasurement ==
    [some |-> FALSE, start |-> U32_ZERO, end |-> U32_ZERO,
     result |-> [kind |-> "None", dist |-> 0]]

Measurement(start, end, result) ==
    [some |-> TRUE, start |-> start, end |-> end, result |-> result]

ErrResult(e) == [kind |-> e, dist |-> 0]

OkResult(d) == [kind |-> "Ok", dist |-> d]

TriggerComplete == [kind |-> "TriggerComplete", t |-> U32_ZERO]

EchoInterrupt(t) == [kind |-> "EchoInterrupt", t |-> t]

NoEvent == [kind |-> "None", t |-> U32_ZERO]

\* Sr04::new
Sr04New == [state |-> Idle, last |-> NoMeasurement, trig |-> FALSE]

\* poll_fires with `>` for `>=`
poll_fires_strict(elapsed) == U32Lt(U32Of(TIMEOUT), elapsed)

\* poll_fires never finding the timeout reached
poll_fires_never(elapsed) == FALSE

\* poll_fires one millisecond early
poll_fires_early(elapsed) == U32Le(U32Of(TIMEOUT - LR_MICROS_PER_TICK), elapsed)

\* `elapsed >= TIMEOUT` in poll
poll_fires(elapsed) == U32Le(U32Of(TIMEOUT), elapsed)

\* Sr04::measurement
measurement(self) == self.last

\* Sr04::poll: [self, ret]
poll(self, at) ==
    IF self.state.tag = "Measuring"
    THEN LET elapsed == micros_or_timeout(at, self.state.start, LR_MICROS_PER_TICK)
         IN  IF poll_fires(elapsed)
             THEN [self |-> [self EXCEPT
                                !.state = Idle,
                                !.last = Measurement(self.state.start, at,
                                                     ErrResult("Timeout"))],
                   ret |-> TRUE]
             ELSE [self |-> self, ret |-> FALSE]
    ELSE [self |-> self, ret |-> FALSE]

\* trigger_match without the set_high
trigger_match_no_pin(self, at) ==
    IF self.state.tag = "Idle"
    THEN [self |-> [self EXCEPT
                       !.state = Measuring(at, "AfterTriggerRising", U32_ZERO)],
          ret |-> "Ok"]
    ELSE [self |-> self, ret |-> "InProgress"]

\* trigger_match restarting a measurement in flight
trigger_match_restart(self, at) ==
    [self |-> [self EXCEPT
                  !.trig = TRUE,
                  !.state = Measuring(at, "AfterTriggerRising", U32_ZERO)],
     ret |-> IF self.state.tag = "Idle" THEN "Ok" ELSE "InProgress"]

\* trigger_match dropping the stored measurement when it starts a new one
trigger_match_forget(self, at) ==
    IF self.state.tag = "Idle"
    THEN [self |-> [self EXCEPT
                       !.trig = TRUE,
                       !.last = NoMeasurement,
                       !.state = Measuring(at, "AfterTriggerRising", U32_ZERO)],
          ret |-> "Ok"]
    ELSE [self |-> self, ret |-> "InProgress"]

\* the match of Sr04::trigger on the state poll left: [self, ret]
trigger_match(self, at) ==
    IF self.state.tag = "Idle"
    THEN [self |-> [self EXCEPT
                       !.trig = TRUE,
                       !.state = Measuring(at, "AfterTriggerRising", U32_ZERO)],
          ret |-> "Ok"]
    ELSE [self |-> self, ret |-> "InProgress"]

\* trigger without the call of poll
trigger_no_poll(self, at) ==
    LET m == trigger_match(self, at)
    IN  [self |-> m.self, ret |-> m.ret, polled |-> FALSE]

\* Sr04::trigger: [self, ret, polled], polled being what poll returned
trigger(self, at) ==
    LET p == poll(self, at)
        m == trigger_match(p.self, at)
    IN  [self |-> m.self, ret |-> m.ret, polled |-> p.ret]

\* `echo_duration.0 as u16`: the low 16 bits of a u32
as_u16(w) == w[2]

\* Distance::from_num of a u16: the U16F16 with that integer part, as the
\* <<integer, fraction>> limbs of its bits
from_num(n) == <<n, 0>>

\* `* SCALING_FACTOR` in U16F16: the bits of the 48-bit product shifted
\* right by the 16 fraction bits (SCALING_FACTOR has no integer part)
mul_scaling_factor(a) == a[1] * SCALING_FACTOR + ((a[2] * SCALING_FACTOR) \div W16)

\* Distance::from_num(echo_duration.0 as u16) * SCALING_FACTOR, in bits
distance_of(w) == mul_scaling_factor(from_num(as_u16(w)))

\* echo_width without the clamp to TIMEOUT
echo_width_unclamped(fall, rise, perTick) ==
    LET m == checked_mul(wrapping_sub(fall, rise), perTick)
    IN  IF m.ok THEN m.v ELSE U32_MAX

\* core::cmp::min((fall - rise).try_into().unwrap_or(TIMEOUT), TIMEOUT), for
\* a high resolution clock of perTick microseconds a tick
echo_width(fall, rise, perTick) ==
    LET d == micros_or_timeout(fall, rise, perTick)
    IN  IF U32Lt(d, U32Of(TIMEOUT)) THEN d ELSE U32Of(TIMEOUT)

\* echo_duration in process
echo_duration(fall, rise) == echo_width(fall, rise, HR_MICROS_PER_TICK)

\* echo_result with `<=` for `<`
echo_result_inclusive(fall, rise) ==
    LET w == echo_duration(fall, rise)
    IN  IF U32Le(w, U32Of(MINIMUM_ECHO_WIDTH))
        THEN ErrResult("TooShort")
        ELSE OkResult(distance_of(w))

\* the result of a measurement closed by the falling echo edge
echo_result(fall, rise) ==
    LET w == echo_duration(fall, rise)
    IN  IF U32Lt(w, U32Of(MINIMUM_ECHO_WIDTH))
        THEN ErrResult("TooShort")
        ELSE OkResult(distance_of(w))

\* matches with the event never looked at
matches_any(sub, event) == TRUE

\* matches with the echo edge accepted while the trigger pulse is high
matches_early_echo(sub, event) ==
    \/ sub = "AfterTriggerRising"
    \/ sub = "AfterTriggerFalling" /\ event.kind = "EchoInterrupt"
    \/ sub = "AfterEchoRising" /\ event.kind = "EchoInterrupt"

\* the `if let` of each arm of process: the event the sub-state expects
matches(sub, event) ==
    \/ sub = "AfterTriggerRising" /\ event.kind = "TriggerComplete"
    \/ sub = "AfterTriggerFalling" /\ event.kind = "EchoInterrupt"
    \/ sub = "AfterEchoRising" /\ event.kind = "EchoInterrupt"

\* the match of Sr04::process on the state, after poll returned false:
\* [self, ret]
process_match(self, event, at) ==
    IF self.state.tag = "Idle" THEN [self |-> self, ret |-> "Unexpected"]
    ELSE IF ~matches(self.state.sub, event) THEN [self |-> self, ret |-> "Unexpected"]
    ELSE CASE self.state.sub = "AfterTriggerRising" ->
                [self |-> [self EXCEPT !.trig = FALSE,
                                       !.state.sub = "AfterTriggerFalling"],
                 ret |-> "OkFalse"]
           [] self.state.sub = "AfterTriggerFalling" ->
                [self |-> [self EXCEPT !.state.sub = "AfterEchoRising",
                                       !.state.rise = event.t],
                 ret |-> "OkFalse"]
           [] OTHER ->
                [self |-> [self EXCEPT
                              !.last = Measurement(self.state.start, at,
                                          echo_result(event.t, self.state.rise)),
                              !.state = Idle],
                 ret |-> "OkTrue"]

\* process reporting a timeout as Ok(false)
process_timeout_false(self, event, at) ==
    LET p == poll(self, at)
    IN  IF p.ret THEN [self |-> p.self, ret |-> "OkFalse", polled |-> TRUE]
        ELSE LET m == process_match(p.self, event, at)
             IN  [self |-> m.self, ret |-> m.ret, polled |-> FALSE]

\* Sr04::process: [self, ret, polled], polled being what poll returned
process(self, event, at) ==
    LET p == poll(self, at)
    IN  IF p.ret THEN [self |-> p.self, ret |-> "OkTrue", polled |-> TRUE]
        ELSE LET m == process_match(p.self, event, at)
             IN  [self |-> m.self, ret |-> m.ret, polled |-> FALSE]

\* the `-` of two instants panics when the left one is the earlier: the
\* calls that return are those whose subtractions are defined
trigger_returns(self, at) ==
    self.state.tag = "Measuring" => NotEarlier(at, self.state.start)

process_returns(self, event, at) ==
    /\ trigger_returns(self, at)
    /\ (/\ ~poll(self, at).ret
        /\ self.state.tag = "Measuring"
        /\ self.state.sub = "AfterEchoRising"
        /\ event.kind = "EchoInterrupt") => NotEarlier(event.t, self.state.rise)

(***************************************************************************)
(* Inputs                                                                  *)
(***************************************************************************)
\* low resolution instants (milliseconds) passed as `at`: the timeout is 60
\* ticks, 4294968 ticks are more microseconds than a u32 holds, and the
\* last u32 is followed by 0
LrInstants == {U32Of(0), U32Of(59), U32Of(60), U32Of(4294968), U32_MAX}

\* high resolution instants (microseconds) carried by EchoInterrupt
HrInstants == {U32Of(0), U32Of(150), U32Of(199), U32Of(200), U32Of(1160), U32Of(60001)}

Events == {TriggerComplete} \cup {EchoInterrupt(t) : t \in HrInstants}

(***************************************************************************)
(* lrtimer.rs: constants and pure functions                                *)
(***************************************************************************)
\* pub const RELOAD_VALUE: u16 = 0xffff
RELOAD_VALUE == 65535

\* pub const MILLISECONDS_PER_UPDATE: u32 = 0x10000 / 2
MILLISECONDS_PER_UPDATE == 32768

\* pub const COUNTS_PER_MILLISECOND: u16 = 2
COUNTS_PER_MILLISECOND == 2

\* isr_needs_servicing with the active flag not looked at
isr_needs_servicing_pending_only(p, a) == p

\* LrTimer::isr_needs_servicing, of the NVIC's pending and active flags
isr_needs_servicing(p, a) == p \/ a

\* calculate_ms rounding the counter's half milliseconds up
calculate_ms_round_up(u, c) ==
    wrapping_add(wrapping_mul(u, MILLISECONDS_PER_UPDATE),
                 U32Of((c + 1) \div COUNTS_PER_MILLISECOND))

\* calculate_ms with a saturating multiplication
calculate_ms_saturating(u, c) ==
    LET m == checked_mul(u, MILLISECONDS_PER_UPDATE)
    IN  wrapping_add(IF m.ok THEN m.v ELSE U32_MAX,
                     U32Of(c \div COUNTS_PER_MILLISECOND))

\* LrTimer::calculate_ms
calculate_ms(u, c) ==
    wrapping_add(wrapping_mul(u, MILLISECONDS_PER_UPDATE),
                 U32Of(c \div COUNTS_PER_MILLISECOND))

\* NVIC::unpend(INTERRUPT): the pending state is removed unless the
\* interrupt line (the timer's update flag) is still asserted
unpend(p, line) == p /\ line

(***************************************************************************)
(* Bounds of the timer model                                               *)
(***************************************************************************)
\* the counter values looked at: this many at each end of 0..RELOAD_VALUE
CntSlack == 1

\* how many updates are counted from the update count the model starts with
MaxUpdates == 2

CntValues == (0..CntSlack) \cup ((RELOAD_VALUE - CntSlack)..RELOAD_VALUE)

\* update counts the model starts with: the one LrTimer::new sets, and the
\* last one before the 32-bit millisecond value wraps to 0
UpdateBases == {U32_ZERO, U32Of(131071)}

MayCount(u) == \E b \in UpdateBases : U32Lt(wrapping_sub(u, b), U32Of(MaxUpdates))

VARIABLES
    state,      \* Sr04::state
    last,       \* Sr04::last
    trig,       \* level of Sr04::trig
    call,       \* the latest call of the driver: operation, arguments, return value
    cnt,        \* TIM2's counter register
    uif,        \* TIM2's update interrupt flag, the interrupt line
    pending,    \* NVIC: INTERRUPT is pending
    active,     \* NVIC: INTERRUPT is active (its handler is entered)
    updates,    \* LrTimer::updates
    top,        \* the LrTimer method called, "none" between calls
    pc,         \* where that call is
    l_cnt,      \* the local `cnt` of ms and ms_no_update
    l_updates,  \* the local `updates` of ms and ms_no_update
    hw_at,      \* where the running call was when the hardware last acted
    sampled,    \* the NVIC flags when the strict read sampled them
    result,     \* the latest call's method and return value
    prev_read,  \* the value ms or now returned before the latest
    last_read,  \* the latest value ms or now returned
    isr_calls,  \* the isr calls the running call of now has made
    hw_updates, \* the overflows the counter has made
    pure        \* a pure function's arguments and, once applied, its value

srVars == <<state, last, trig, call, pure>>

tmVars == <<cnt, uif, pending, active, updates, top, pc, l_cnt, l_updates, hw_at,
            sampled, result, prev_read, last_read, isr_calls, hw_updates>>

vars == <<state, last, trig, call, cnt, uif, pending, active, updates, top, pc,
          l_cnt, l_updates, hw_at, sampled, result, prev_read, last_read, isr_calls,
          hw_updates, pure>>

Self == [state |-> state, last |-> last, trig |-> trig]

NoCall ==
    [op |-> "new", event |-> NoEvent, at |-> U32_ZERO, ret |-> "None", polled |-> FALSE]

NoSample == [taken |-> FALSE, pending |-> FALSE, active |-> FALSE]

NoResult == [op |-> "new", ret |-> "None", value |-> U32_ZERO]

NoRead == [some |-> FALSE, value |-> U32_ZERO]

NoPure ==
    [op |-> "none", a |-> U32_ZERO, b |-> U32_ZERO, k |-> 0, done |-> FALSE,
     out |-> U32_ZERO, dist |-> 0]

SrInit ==
    /\ state = Sr04New.state
    /\ last = Sr04New.last
    /\ trig = Sr04New.trig
    /\ call = NoCall

\* LrTimer::new: the counter runs from 0 with the update interrupt enabled
TmInit ==
    /\ cnt = 0
    /\ uif = FALSE
    /\ pending = FALSE
    /\ active = FALSE
    /\ updates \in UpdateBases
    /\ hw_updates = updates
    /\ top = "none"
    /\ pc = "idle"
    /\ l_cnt = 0
    /\ l_updates = U32_ZERO
    /\ hw_at = "none"
    /\ sampled = NoSample
    /\ result = NoResult
    /\ prev_read = NoRead
    /\ last_read = NoRead
    /\ isr_calls = 0

Init == SrInit /\ TmInit /\ updates = U32_ZERO /\ pure = NoPure

InitTimer == SrInit /\ TmInit /\ pure = NoPure

(***************************************************************************)
(* Sr04: the calls                                                         *)
(***************************************************************************)
Trigger ==
    /\ \E at \in LrInstants :
        /\ trigger_returns(Self, at)
        /\ LET r == trigger(Self, at)
           IN  /\ state' = r.self.state
               /\ last' = r.self.last
               /\ trig' = r.self.trig
               /\ call' = [op |-> "trigger", event |-> NoEvent, at |-> at,
                          ret |-> r.ret, polled |-> r.polled]
    /\ UNCHANGED pure
    /\ UNCHANGED tmVars

Process ==
    /\ \E event \in Events, at \in LrInstants :
        /\ process_returns(Self, event, at)
        /\ LET r == process(Self, event, at)
           IN  /\ state' = r.self.state
               /\ last' = r.self.last
               /\ trig' = r.self.trig
               /\ call' = [op |-> "process", event |-> event, at |-> at,
                          ret |-> r.ret, polled |-> r.polled]
    /\ UNCHANGED pure
    /\ UNCHANGED tmVars

Next == Trigger \/ Process

Spec == Init /\ [][Next]_vars

(***************************************************************************)
(* Sr04 called with a `now` that does not go back                          *)
(***************************************************************************)
\* low resolution instants around the 32-bit clock: each has a later one
\* that is TIMEOUT or more and less than 2^31 ticks after it (the last is
\* 2^31 + 30, less than 2^31 ticks after 59 and before 0)
LiveInstants == {U32_ZERO, U32Of(59), U32Of(60), <<HALF16, 30>>}

LiveEvents == {TriggerComplete, EchoInterrupt(U32_ZERO), EchoInterrupt(U32Of(1160))}

\* trigger(at) with at not earlier than the `at` of the call before
TriggerAt(at) ==
    /\ NotEarlier(at, call.at)
    /\ trigger_returns(Self, at)
    /\ LET r == trigger(Self, at)
       IN  /\ state' = r.self.state
           /\ last' = r.self.last
           /\ trig' = r.self.trig
           /\ call' = [op |-> "trigger", event |-> NoEvent, at |-> at,
                      ret |-> r.ret, polled |-> r.polled]
    /\ UNCHANGED pure
    /\ UNCHANGED tmVars

\* process(event, at) with at not earlier than the `at` of the call before
ProcessAt(event, at) ==
    /\ NotEarlier(at, call.at)
    /\ process_returns(Self, event, at)
    /\ LET r == process(Self, event, at)
       IN  /\ state' = r.self.state
           /\ last' = r.self.last
           /\ trig' = r.self.trig
           /\ call' = [op |-> "process", event |-> event, at |-> at,
                      ret |-> r.ret, polled |-> r.polled]
    /\ UNCHANGED pure
    /\ UNCHANGED tmVars

TriggerLive == \E at \in LiveInstants : TriggerAt(at)

ProcessLive == \E event \in LiveEvents, at \in LiveInstants : ProcessAt(event, at)

NextLive == TriggerLive \/ ProcessLive

\* a call made when `now` is TIMEOUT or more after the start of the
\* measurement in flight
LateCallAt(at) ==
    /\ state.tag = "Measuring"
    /\ U32Le(U32Of(TIMEOUT \div LR_MICROS_PER_TICK), wrapping_sub(at, state.start))
    /\ (TriggerAt(at) \/ \E event \in LiveEvents : ProcessAt(event, at))

LateCall == \E at \in LiveInstants : LateCallAt(at)

\* the caller keeps calling, and `now` reaches start + TIMEOUT while the
\* measurement is still in flight
SpecLive == Init /\ [][NextLive]_vars /\ WF_vars(LateCall)

(***************************************************************************)
(* The pure functions, applied to arguments from bounded sets              *)
(***************************************************************************)
\* high resolution instants: around MINIMUM_ECHO_WIDTH, around TIMEOUT,
\* around the 16 bits of the cast, the ticks whose microseconds pass a u32
\* at 1000 microseconds a tick, and the ends of the range
EchoInstants ==
    {U32_ZERO, U32Of(199), U32Of(200), U32Of(59999), U32Of(60000), U32Of(60001),
     U32Of(65536), U32Of(4294968), <<HALF16 - 1, W16 - 1>>, U32_MAX}

\* microseconds a tick of the high resolution clock: Sr04 takes any Clock
EchoPerTick == {HR_MICROS_PER_TICK, LR_MICROS_PER_TICK}

\* update counts: small ones, odd and even, the ones around the wrap of the
\* millisecond value, and the last u32
MsUpdates ==
    {U32_ZERO, U32Of(1), U32Of(2), U32Of(65535), U32Of(65536), U32Of(131071),
     U32Of(131072), <<W16 - 1, W16 - 2>>, U32_MAX}

\* raw counter values: both ends, odd and even
MsCounts == {0, 1, 2, 3, HALF16 - 1, HALF16, RELOAD_VALUE - 1, RELOAD_VALUE}

PureInputs ==
    {[op |-> "echo_duration", a |-> f, b |-> r, k |-> k, done |-> FALSE,
      out |-> U32_ZERO, dist |-> 0] :
        f \in EchoInstants, r \in EchoInstants, k \in EchoPerTick}
    \cup
    {[op |-> "calculate_ms", a |-> u, b |-> U32_ZERO, k |-> c, done |-> FALSE,
      out |-> U32_ZERO, dist |-> 0] :
        u \in MsUpdates, c \in MsCounts}
    \cup
    {[op |-> "update", a |-> u, b |-> U32_ZERO, k |-> RELOAD_VALUE, done |-> FALSE,
      out |-> U32_ZERO, dist |-> 0] :
        u \in MsUpdates}

InitPure == SrInit /\ TmInit /\ updates = U32_ZERO /\ pure \in PureInputs

\* lines 216-219 and 228 of process, for the pairs whose `-` is defined
EchoDuration ==
    /\ pure.op = "echo_duration" /\ ~pure.done
    /\ NotEarlier(pure.a, pure.b)
    /\ LET w == echo_width(pure.a, pure.b, pure.k)
       IN  pure' = [pure EXCEPT !.done = TRUE, !.out = w, !.dist = distance_of(w)]
    /\ UNCHANGED <<state, last, trig, call>>
    /\ UNCHANGED tmVars

\* LrTimer::calculate_ms(updates, cnt)
CalculateMs ==
    /\ pure.op = "calculate_ms" /\ ~pure.done
    /\ pure' = [pure EXCEPT !.done = TRUE, !.out = calculate_ms(pure.a, pure.k)]
    /\ UNCHANGED <<state, last, trig, call>>
    /\ UNCHANGED tmVars

\* the time at the last counter value before an update, in out, and the
\* time at counter value 0 once isr has counted the update
\* (`self.updates.wrapping_add(1)`), in b
CalculateMsAcrossUpdate ==
    /\ pure.op = "update" /\ ~pure.done
    /\ pure' = [pure EXCEPT
                   !.done = TRUE,
                   !.out = calculate_ms(pure.a, pure.k),
                   !.b = calculate_ms(wrapping_add(pure.a, U32Of(1)), 0)]
    /\ UNCHANGED <<state, last, trig, call>>
    /\ UNCHANGED tmVars

NextPure == EchoDuration \/ CalculateMs \/ CalculateMsAcrossUpdate

SpecPure == InitPure /\ [][NextPure]_vars

(***************************************************************************)
(* LrTimer: the hardware                                                   *)
(***************************************************************************)
\* no update is waiting for isr, and INTERRUPT's handler is not running
Serviced == ~uif /\ ~pending /\ ~active

\* the hardware may act: between two calls, or once during a call (a call
\* is shorter than one counter tick of 0.5 ms)
HwMayAct == pc = "idle" \/ hw_at = "none"

\* the counter counts up: by one during a call, by any time between calls.
\* An update is serviced before the counter has passed CntSlack.
HwTick ==
    /\ HwMayAct
    /\ \E v \in CntValues :
        /\ v > cnt
        /\ pc # "idle" => v = cnt + 1
        /\ ~Serviced => v <= CntSlack
        /\ cnt' = v
    /\ hw_at' = pc
    /\ UNCHANGED <<uif, pending, active, updates, top, pc, l_cnt, l_updates,
                   sampled, result, prev_read, last_read, isr_calls, hw_updates>>
    /\ UNCHANGED srVars

\* the counter passes RELOAD_VALUE: it restarts from 0, the update flag is
\* set and, the update interrupt being enabled, the NVIC latches it.  An
\* update period is 32.768 s: the update before was serviced long ago.
HwOverflow ==
    /\ HwMayAct
    /\ cnt = RELOAD_VALUE
    /\ Serviced
    /\ MayCount(hw_updates)
    /\ cnt' = 0
    /\ uif' = TRUE
    /\ pending' = TRUE
    /\ hw_at' = pc
    /\ hw_updates' = wrapping_add(hw_updates, U32Of(1))
    /\ UNCHANGED <<active, updates, top, pc, l_cnt, l_updates, sampled, result,
                   prev_read, last_read, isr_calls>>
    /\ UNCHANGED srVars

\* the counter counts up, with nothing assumed about how long a call or
\* the servicing of an update takes
HwTickAny ==
    /\ \E v \in CntValues : v > cnt /\ cnt' = v
    /\ hw_at' = pc
    /\ UNCHANGED <<uif, pending, active, updates, top, pc, l_cnt, l_updates,
                   sampled, result, prev_read, last_read, isr_calls, hw_updates>>
    /\ UNCHANGED srVars

\* the counter passes RELOAD_VALUE, with nothing assumed about timing: an
\* update not yet serviced is lost in the flag that is already set
HwOverflowAny ==
    /\ cnt = RELOAD_VALUE
    /\ MayCount(hw_updates)
    /\ cnt' = 0
    /\ uif' = TRUE
    /\ pending' = TRUE
    /\ hw_at' = pc
    /\ hw_updates' = wrapping_add(hw_updates, U32Of(1))
    /\ UNCHANGED <<active, updates, top, pc, l_cnt, l_updates, sampled, result,
                   prev_read, last_read, isr_calls>>
    /\ UNCHANGED srVars

\* exception entry of INTERRUPT, between two calls: pending becomes active
IrqEnter ==
    /\ pc = "idle"
    /\ pending /\ ~active
    /\ pending' = FALSE
    /\ active' = TRUE
    /\ UNCHANGED <<cnt, uif, updates, top, pc, l_cnt, l_updates, hw_at, sampled,
                   result, prev_read, last_read, isr_calls, hw_updates>>
    /\ UNCHANGED srVars

\* exception return: the interrupt is pending again if its line is asserted
IrqExit ==
    /\ pc = "idle"
    /\ active
    /\ active' = FALSE
    /\ pending' = (pending \/ uif)
    /\ UNCHANGED <<cnt, uif, updates, top, pc, l_cnt, l_updates, hw_at, sampled,
                   result, prev_read, last_read, isr_calls, hw_updates>>
    /\ UNCHANGED srVars

(***************************************************************************)
(* LrTimer: the methods, one action per register access                    *)
(***************************************************************************)
Methods == {"isr", "ms", "ms_no_update", "now"}

FirstPc(m) ==
    CASE m = "isr" -> "isr_flags"
      [] m = "ms" -> "ms_cnt"
      [] OTHER -> "nu_cnt"

\* a method is called, from thread mode or from a handler
Call ==
    /\ pc = "idle"
    /\ \E m \in Methods :
        /\ top' = m
        /\ pc' = FirstPc(m)
        /\ result' = [op |-> m, ret |-> "Running", value |-> U32_ZERO]
    /\ hw_at' = "none"
    /\ sampled' = NoSample
    /\ isr_calls' = 0
    /\ UNCHANGED <<cnt, uif, pending, active, updates, l_cnt, l_updates, prev_read, last_read,
                   hw_updates>>
    /\ UNCHANGED srVars

\* the top-level method returns
Return(ret, value) ==
    /\ result' = [op |-> top, ret |-> ret, value |-> value]
    /\ IF top \in {"ms", "now"} /\ ret = "Ok"
       THEN /\ last_read' = [some |-> TRUE, value |-> value]
            /\ prev_read' = last_read
       ELSE UNCHANGED <<prev_read, last_read>>
    /\ top' = "none"
    /\ pc' = "idle"
    /\ l_cnt' = 0
    /\ l_updates' = U32_ZERO

\* isr returns to its caller
IsrReturn ==
    CASE top = "ms" -> /\ pc' = "ms_cnt2"
                       /\ UNCHANGED <<top, result, prev_read, last_read, l_cnt, l_updates>>
      [] top = "now" -> /\ pc' = "nu_cnt"
                        /\ UNCHANGED <<top, result, prev_read, last_read, l_cnt, l_updates>>
      [] OTHER -> Return("Ok", U32_ZERO)

\* isr: `if self.isr_needs_servicing()`
IsrFlags ==
    /\ pc = "isr_flags"
    /\ IF isr_needs_servicing(pending, active)
       THEN /\ pc' = "isr_clear"
            /\ UNCHANGED <<top, result, prev_read, last_read, l_cnt, l_updates>>
       ELSE IsrReturn
    /\ UNCHANGED <<cnt, uif, pending, active, updates, hw_at, sampled, isr_calls,
                   hw_updates>>
    /\ UNCHANGED srVars

\* isr: clear_update_interrupt_flag(), updates = updates.wrapping_add(1)
IsrClear ==
    /\ pc = "isr_clear"
    /\ MayCount(updates)
    /\ uif' = FALSE
    /\ updates' = wrapping_add(updates, U32Of(1))
    /\ pc' = "isr_unpend"
    /\ UNCHANGED <<cnt, pending, active, top, l_cnt, l_updates, hw_at, sampled, result,
                   prev_read, last_read, isr_calls, hw_updates>>
    /\ UNCHANGED srVars

\* isr: NVIC::unpend(INTERRUPT), and the return
IsrUnpend ==
    /\ pc = "isr_unpend"
    /\ pending' = unpend(pending, uif)
    /\ IsrReturn
    /\ UNCHANGED <<cnt, uif, active, updates, hw_at, sampled, isr_calls, hw_updates>>
    /\ UNCHANGED srVars

\* ms: `let cnt = self.tim.cnt(); let updates = self.updates;`
MsCnt ==
    /\ pc = "ms_cnt"
    /\ l_cnt' = cnt
    /\ l_updates' = updates
    /\ pc' = "ms_flags"
    /\ UNCHANGED <<cnt, uif, pending, active, updates, top, hw_at, sampled, result,
                   prev_read, last_read, isr_calls, hw_updates>>
    /\ UNCHANGED srVars

\* ms: `if self.isr_needs_servicing() { self.isr(); ... } else { (cnt, updates) }`
MsFlags ==
    /\ pc = "ms_flags"
    /\ IF isr_needs_servicing(pending, active)
       THEN /\ pc' = "isr_flags"
            /\ UNCHANGED <<top, result, prev_read, last_read, l_cnt, l_updates>>
       ELSE Return("Ok", calculate_ms(l_updates, l_cnt))
    /\ UNCHANGED <<cnt, uif, pending, active, updates, hw_at, sampled, isr_calls,
                   hw_updates>>
    /\ UNCHANGED srVars

\* MsCnt2 with the counter value sampled before isr
MsCnt2_stale_cnt ==
    /\ pc = "ms_cnt2"
    /\ Return("Ok", calculate_ms(updates, l_cnt))
    /\ UNCHANGED <<cnt, uif, pending, active, updates, hw_at, sampled, isr_calls,
                   hw_updates>>
    /\ UNCHANGED srVars

\* MsCnt2 with the update count sampled before isr
MsCnt2_stale_updates ==
    /\ pc = "ms_cnt2"
    /\ Return("Ok", calculate_ms(l_updates, cnt))
    /\ UNCHANGED <<cnt, uif, pending, active, updates, hw_at, sampled, isr_calls,
                   hw_updates>>
    /\ UNCHANGED srVars

\* ms: `(self.tim.cnt(), self.updates)` after isr, and the return
MsCnt2 ==
    /\ pc = "ms_cnt2"
    /\ Return("Ok", calculate_ms(updates, cnt))
    /\ UNCHANGED <<cnt, uif, pending, active, updates, hw_at, sampled, isr_calls,
                   hw_updates>>
    /\ UNCHANGED srVars

\* ms_no_update, in its critical section: `self.tim.cnt(), self.updates`
NuCnt ==
    /\ pc = "nu_cnt"
    /\ l_cnt' = cnt
    /\ l_updates' = updates
    /\ pc' = "nu_flags"
    /\ UNCHANGED <<cnt, uif, pending, active, updates, top, hw_at, sampled, result,
                   prev_read, last_read, isr_calls, hw_updates>>
    /\ UNCHANGED srVars

\* NuFlags removing the pending state it found
NuFlags_unpends ==
    /\ pc = "nu_flags"
    /\ sampled' = [taken |-> TRUE, pending |-> pending, active |-> active]
    /\ pending' = FALSE
    /\ IF isr_needs_servicing(pending, active)
       THEN IF top = "now"
            THEN /\ pc' = "isr_flags"
                 /\ isr_calls' = isr_calls + 1
                 /\ UNCHANGED <<top, result, prev_read, last_read, l_cnt, l_updates>>
            ELSE /\ Return("Err", U32_ZERO)
                 /\ UNCHANGED isr_calls
       ELSE /\ Return("Ok", calculate_ms(l_updates, l_cnt))
            /\ UNCHANGED isr_calls
    /\ UNCHANGED <<cnt, uif, active, updates, hw_at, hw_updates>>
    /\ UNCHANGED srVars

\* ms_no_update: `self.isr_needs_servicing()` and the return; in now, the
\* match on try_now's result: return the value, or call isr and loop
NuFlags ==
    /\ pc = "nu_flags"
    /\ sampled' = [taken |-> TRUE, pending |-> pending, active |-> active]
    /\ IF isr_needs_servicing(pending, active)
       THEN IF top = "now"
            THEN /\ pc' = "isr_flags"
                 /\ isr_calls' = isr_calls + 1
                 /\ UNCHANGED <<top, result, prev_read, last_read, l_cnt, l_updates>>
            ELSE /\ Return("Err", U32_ZERO)
                 /\ UNCHANGED isr_calls
       ELSE /\ Return("Ok", calculate_ms(l_updates, l_cnt))
            /\ UNCHANGED isr_calls
    /\ UNCHANGED <<cnt, uif, pending, active, updates, hw_at, hw_updates>>
    /\ UNCHANGED srVars

NextTimer ==
    \/ HwTick \/ HwOverflow \/ IrqEnter \/ IrqExit
    \/ Call
    \/ IsrFlags \/ IsrClear \/ IsrUnpend
    \/ MsCnt \/ MsFlags \/ MsCnt2
    \/ NuCnt \/ NuFlags

SpecTimer == InitTimer /\ [][NextTimer]_vars

NextTimerAny ==
    \/ HwTickAny \/ HwOverflowAny \/ IrqEnter \/ IrqExit
    \/ Call
    \/ IsrFlags \/ IsrClear \/ IsrUnpend
    \/ MsCnt \/ MsFlags \/ MsCnt2
    \/ NuCnt \/ NuFlags

SpecTimerAny == InitTimer /\ [][NextTimerAny]_vars

(***************************************************************************)
(* Sr04: the claims                                                        *)
(***************************************************************************)
\* the timeout in the low resolution clock's ticks: 60000 us at 1000 us a tick
TIMEOUT_TICKS == TIMEOUT \div LR_MICROS_PER_TICK

\* the measurement in flight started TIMEOUT or longer before `at`
TimeoutReached(at) ==
    /\ state.tag = "Measuring"
    /\ U32Le(U32Of(TIMEOUT_TICKS), wrapping_sub(at, state.start))

TimeoutMeasurement(at) == Measurement(state.start, at, ErrResult("Timeout"))

\* C1: a process(event, now) made while Measuring with now - start >= TIMEOUT
\* returns Ok(true), leaves the state Idle and the stored measurement
\* {start, end: now, Err(Timeout)}, and does not apply the event: the
\* sub-state does not advance and the pin keeps its level.
C1_ProcessTimeout ==
    [][(call'.op = "process" /\ TimeoutReached(call'.at))
         => /\ call'.ret = "OkTrue"
            /\ state' = Idle
            /\ last' = TimeoutMeasurement(call'.at)
            /\ trig' = trig]_vars

\* a process(TriggerComplete) that timed out in AfterTriggerRising: the pin
\* was not lowered
C1_Witness ==
    /\ call.op = "process" /\ call.ret = "OkTrue" /\ call.polled
    /\ call.event = TriggerComplete
    /\ state = Idle /\ trig
    /\ last.result.kind = "Timeout" /\ last.end = call.at

\* C2: a trigger(now) made while Idle returns Ok(()), leaves the state
\* Measuring{start: now, AfterTriggerRising} and the pin high, and keeps the
\* stored measurement.
C2_TriggerFromIdle ==
    [][(call'.op = "trigger" /\ state.tag = "Idle")
         => /\ call'.ret = "Ok"
            /\ state' = Measuring(call'.at, "AfterTriggerRising", U32_ZERO)
            /\ trig'
            /\ last' = last]_vars

\* a trigger from Idle with an earlier measurement stored
C2_Witness ==
    /\ call.op = "trigger" /\ call.ret = "Ok" /\ ~call.polled
    /\ state = Measuring(call.at, "AfterTriggerRising", U32_ZERO) /\ trig
    /\ last.some /\ last.result.kind = "Ok"

\* C3: a trigger(now) made while Measuring with now - start < TIMEOUT returns
\* Err(InProgress) and changes neither the state, the stored measurement nor
\* the pin.
C3_TriggerInProgress ==
    [][(call'.op = "trigger" /\ state.tag = "Measuring" /\ ~TimeoutReached(call'.at))
         => /\ call'.ret = "InProgress"
            /\ state' = state
            /\ last' = last
            /\ trig' = trig]_vars

\* a refused trigger after the rising echo edge, one tick before the timeout
C3_Witness ==
    /\ call.op = "trigger" /\ call.ret = "InProgress"
    /\ state.tag = "Measuring" /\ state.sub = "AfterEchoRising"
    /\ wrapping_sub(call.at, state.start) = U32Of(TIMEOUT_TICKS - 1)

\* the event is not the one the state expects
Mismatch(event) ==
    \/ state.tag = "Idle"
    \/ state.sub = "AfterTriggerRising" /\ event.kind = "EchoInterrupt"
    \/ state.sub = "AfterTriggerFalling" /\ event.kind = "TriggerComplete"
    \/ state.sub = "AfterEchoRising" /\ event.kind = "TriggerComplete"

\* C4: a process(event, now) that does not time out and whose event does not
\* match the state returns Err(Unexpected) and changes neither the state, the
\* stored measurement nor the pin.
C4_ProcessUnexpected ==
    [][(call'.op = "process" /\ ~TimeoutReached(call'.at) /\ Mismatch(call'.event))
         => /\ call'.ret = "Unexpected"
            /\ state' = state
            /\ last' = last
            /\ trig' = trig]_vars

\* a TriggerComplete refused after the pulse was already lowered
C4_Witness ==
    /\ call.op = "process" /\ call.ret = "Unexpected"
    /\ call.event = TriggerComplete
    /\ state.tag = "Measuring" /\ state.sub = "AfterTriggerFalling"

\* C5: a trigger(now) made while Measuring with now - start >= TIMEOUT records
\* the Timeout measurement {old start, now}, then goes on as a trigger
\* from Idle: pin high, state Measuring{start: now, AfterTriggerRising},
\* success returned.
C5_TriggerAfterTimeout ==
    [][(call'.op = "trigger" /\ TimeoutReached(call'.at))
         => /\ call'.ret = "Ok"
            /\ call'.polled
            /\ last' = TimeoutMeasurement(call'.at)
            /\ state' = Measuring(call'.at, "AfterTriggerRising", U32_ZERO)
            /\ trig']_vars

\* a trigger that timed out a measurement waiting for its falling echo edge
\* and started the next one
C5_Witness ==
    /\ call.op = "trigger" /\ call.ret = "Ok" /\ call.polled
    /\ last.result.kind = "Timeout" /\ last.end = call.at
    /\ last.start # call.at
    /\ state = Measuring(call.at, "AfterTriggerRising", U32_ZERO) /\ trig

\* one step of the table, from state s to state t, by the call c
TableStep(s, t, c) ==
    \/ /\ s = Idle /\ c.op = "trigger"
       /\ t = Measuring(c.at, "AfterTriggerRising", U32_ZERO)
    \/ /\ s.tag = "Measuring" /\ s.sub = "AfterTriggerRising"
       /\ c.op = "process" /\ c.event = TriggerComplete
       /\ t = [s EXCEPT !.sub = "AfterTriggerFalling"]
    \/ /\ s.tag = "Measuring" /\ s.sub = "AfterTriggerFalling"
       /\ c.op = "process" /\ c.event.kind = "EchoInterrupt"
       /\ t = [s EXCEPT !.sub = "AfterEchoRising", !.rise = c.event.t]
    \/ /\ s.tag = "Measuring" /\ s.sub = "AfterEchoRising"
       /\ c.op = "process" /\ c.event.kind = "EchoInterrupt"
       /\ t = Idle

\* C6: the state changes only along the table's steps.  A call first takes
\* the timeout step (Measuring -> Idle) exactly when its poll fired, which
\* happens only with the timeout reached; from there the state changes by
\* at most one step of the table, which keeps the start and moves the
\* sub-state to the next one.
C6_OnlyTableSteps ==
    [][LET mid == IF call'.polled THEN Idle ELSE state
       IN  /\ call'.polled => TimeoutReached(call'.at)
           /\ (call'.op = "process" /\ call'.polled) => state' = mid
           /\ state' # mid => TableStep(mid, state', call')]_vars

\* a measurement that went through every sub-state and was closed by the
\* falling echo edge
C6_Witness ==
    /\ call.op = "process" /\ call.ret = "OkTrue" /\ ~call.polled
    /\ call.event.kind = "EchoInterrupt"
    /\ state = Idle /\ ~trig
    /\ last.result.kind = "Ok" /\ last.end = call.at

\* C7: a process call replaces the stored measurement exactly when it
\* returns Ok(true); Ok(true) is returned only on a timeout or on the
\* EchoInterrupt in AfterEchoRising, and then the state is Idle.
C7_StoredIffCompleted ==
    [][call'.op = "process"
         => /\ call'.ret # "OkTrue" => last' = last
            /\ call'.ret = "OkTrue"
                 => /\ state.tag = "Measuring"
                    /\ state' = Idle
                    /\ last'.some
                    /\ last'.start = state.start /\ last'.end = call'.at
                    /\ \/ TimeoutReached(call'.at) /\ last'.result.kind = "Timeout"
                       \/ /\ ~TimeoutReached(call'.at)
                          /\ state.sub = "AfterEchoRising"
                          /\ call'.event.kind = "EchoInterrupt"
                          /\ last'.result.kind \in {"Ok", "TooShort"}]_vars

\* a measurement completed by a falling echo edge too soon after the rising
\* one, stored with its start and the call's `at`
C7_Witness ==
    /\ call.op = "process" /\ call.ret = "OkTrue"
    /\ state = Idle
    /\ last.result.kind = "TooShort" /\ last.end = call.at
    /\ last.start # U32_ZERO

(***************************************************************************)
(* LrTimer: the claims                                                     *)
(***************************************************************************)
StrictReadDone ==
    result.op \in {"ms_no_update", "now"} /\ result.ret # "Running"

\* C8: the strict read (ms_no_update, and try_now in now) returns a value
\* only if INTERRUPT was neither pending nor active when it sampled the
\* flags, and the error whenever it was pending or active then, whatever
\* the counter did between the counter sample and the flag sample.
C8_StrictReadRefuses ==
    StrictReadDone
      => /\ sampled.taken
         /\ result.ret = "Ok" <=> ~(sampled.pending \/ sampled.active)

\* a strict read refused because the counter overflowed after it had
\* sampled the counter and before it sampled the flags
C8_Witness ==
    /\ result.op = "ms_no_update" /\ result.ret = "Err"
    /\ hw_at = "nu_flags"
    /\ sampled.pending /\ ~sampled.active
    /\ cnt = 0 /\ uif

\* C9: the values ms and now return, in the order they return them, never
\* step back: each is the one before plus less than 2^31, modulo 2^32.
C9_ReadsNonDecreasing ==
    prev_read.some => NotEarlier(last_read.value, prev_read.value)

\* two reads across the wrap of the 32-bit millisecond value: the last
\* millisecond before it, then the first after it
C9_Witness ==
    /\ prev_read.some /\ prev_read.value = U32_MAX
    /\ last_read.value = U32_ZERO
    /\ result.op = "now" /\ result.ret = "Ok"

\* C10: a call of now makes at most one isr call: the strict read after it
\* returns a value.
C10_NowServicesOnce == top = "now" => isr_calls <= 1

\* C11: isr is idempotent: it changes the overflow counter only when a
\* hardware overflow is outstanding (the update flag is set), so a second
\* isr call with no overflow since the first leaves the counter as the
\* first left it, whether the interrupt was pending or active.
C11_IsrIdempotent == [][updates' # updates => uif]_vars

\* a step of the strict read itself: ms_no_update, or try_now inside now
StrictReadStep == pc \in {"nu_cnt", "nu_flags"} /\ pc' # pc

\* C12: the strict read never runs the servicing routine: its steps leave
\* the overflow counter, the update flag and the NVIC's pending and active
\* flags unchanged, with either outcome; the overflow counter changes only
\* inside isr.
C12_StrictReadFrame ==
    [][/\ StrictReadStep => /\ updates' = updates
                            /\ uif' = uif
                            /\ pending' = pending
                            /\ active' = active
       /\ updates' # updates => pc = "isr_clear"]_vars

\* a strict read refused an update that is still waiting to be serviced
C12_Witness ==
    /\ result.op = "ms_no_update" /\ result.ret = "Err"
    /\ pc = "idle" /\ hw_at \in {"none", "nu_cnt", "nu_flags"}
    /\ uif /\ pending /\ ~active
    /\ U32Lt(updates, hw_updates)

\* C13: in every reachable state a stored measurement has the result
\* Err(Timeout) if and only if its end - start is TIMEOUT (60000 us, 60
\* ticks of the low resolution clock) or more.
C13_TimeoutIffElapsed ==
    LET m == measurement(Self)
    IN  m.some => (m.result.kind = "Timeout"
                     <=> U32Le(U32Of(TIMEOUT_TICKS), wrapping_sub(m.end, m.start)))

\* a timeout stored at exactly 60000 us
C13_Witness ==
    /\ last.some /\ last.result.kind = "Timeout"
    /\ wrapping_sub(last.end, last.start) = U32Of(TIMEOUT_TICKS)
    /\ state = Idle

\* the closing echo edge: EchoInterrupt in AfterEchoRising, without timeout
ClosingEdge ==
    /\ call'.op = "process"
    /\ state.tag = "Measuring" /\ state.sub = "AfterEchoRising"
    /\ call'.event.kind = "EchoInterrupt"
    /\ ~TimeoutReached(call'.at)

\* C14: on the closing EchoInterrupt(fall) in AfterEchoRising{rise} without
\* timeout the stored result is Err(TooShort) exactly when fall - rise is
\* below 200 us and Ok(distance) for every width of 200 us or more; the
\* measurement is stored with the recorded start and end = now.
C14_TooShortBelowMinimum ==
    [][ClosingEdge
         => /\ last'.some
            /\ last'.start = state.start
            /\ last'.end = call'.at
            /\ last'.result.kind =
                  IF U32Lt(wrapping_sub(call'.event.t, state.rise),
                           U32Of(MINIMUM_ECHO_WIDTH))
                  THEN "TooShort" ELSE "Ok"]_vars

\* an echo of exactly 200 us (the only rise before a fall at 200 that does
\* not give TooShort is 0), stored as Ok
C14_Witness ==
    /\ call.op = "process" /\ call.ret = "OkTrue" /\ ~call.polled
    /\ call.event = EchoInterrupt(U32Of(MINIMUM_ECHO_WIDTH))
    /\ last.result.kind = "Ok" /\ last.end = call.at
    /\ state = Idle

\* fall - rise, in ticks of perTick microseconds, is TIMEOUT or longer
AtLeastTimeout(fall, rise, perTick) ==
    U32Le(U32Of((TIMEOUT + perTick - 1) \div perTick), wrapping_sub(fall, rise))

\* min(fall - rise, TIMEOUT) in microseconds
ClampedMicros(fall, rise, perTick) ==
    IF AtLeastTimeout(fall, rise, perTick)
    THEN U32Of(TIMEOUT)
    ELSE U32Of(wrapping_sub(fall, rise)[2] * perTick)

\* C15: the echo width is min(fall - rise, 60000 us), 60000 us also when
\* the difference is more microseconds than 32 bits hold; so the width is
\* at most 60000, the cast to 16 bits keeps its value, and the product with
\* the scaling constant fits the 32 bits of U16F16.
C15_WidthClamped ==
    (pure.op = "echo_duration" /\ pure.done)
      => /\ pure.out = ClampedMicros(pure.a, pure.b, pure.k)
         /\ U32Le(pure.out, U32Of(TIMEOUT))
         /\ <<0, as_u16(pure.out)>> = pure.out
         /\ pure.dist \div W16 < W16

\* a difference of 2^31 - 1 ticks of 1000 us: the conversion overflows
C15_Witness ==
    /\ pure.op = "echo_duration" /\ pure.done
    /\ pure.k = LR_MICROS_PER_TICK
    /\ ~checked_mul(wrapping_sub(pure.a, pure.b), pure.k).ok
    /\ pure.out = U32Of(TIMEOUT)
    /\ pure.dist = TIMEOUT * SCALING_FACTOR

\* (u * 32768 + floor(c / 2)) mod 2^32 in 16-bit limbs: u * 2^15 moves the
\* low bit of u's high limb to bit 31 and its low limb to bits 15..30, and
\* floor(c / 2) is below 2^15
CombinedTime(u, c) ==
    <<(u[1] % 2) * HALF16 + u[2] \div 2, (u[2] % 2) * HALF16 + c \div 2>>

\* C17: for every overflow count u of 32 bits and raw counter value c of
\* 16 bits, calculate_ms(u, c) is (u * 32768 + floor(c / 2)) mod 2^32.
C17_CombinedTime ==
    (pure.op = "calculate_ms" /\ pure.done) => pure.out = CombinedTime(pure.a, pure.k)

\* the last update count with an odd counter value: the product wraps
C17_Witness ==
    /\ pure.op = "calculate_ms" /\ pure.done
    /\ pure.a = U32_MAX /\ pure.k = RELOAD_VALUE
    /\ pure.out = U32_MAX

\* a call completes a cycle: its poll fired (in process or in trigger), or
\* it is the process that returns Ok(true) on the closing echo edge
CompletesCycle == call' # call /\ (call'.polled \/ call'.ret = "OkTrue")

\* C16: measurement() is None until a call completes a cycle, by timeout
\* or by the closing echo edge; a call that completes a cycle makes it the
\* measurement that call produced, and every other call leaves it as it
\* was, so it is never reset to None.
C16_MeasurementLatest ==
    /\ ~measurement(Self).some
    /\ [][IF CompletesCycle
          THEN /\ measurement(Self)'.some
               /\ measurement(Self)'.start = state.start
               /\ measurement(Self)'.end = call'.at
          ELSE measurement(Self)' = measurement(Self)]_vars

\* a new measurement in flight while the glitch measured before is returned
C16_Witness ==
    /\ call.op = "process" /\ call.ret = "OkFalse"
    /\ state.tag = "Measuring" /\ state.sub = "AfterEchoRising"
    /\ measurement(Self).some /\ measurement(Self).result.kind = "TooShort"
    /\ state.start # measurement(Self).start

\* a U16F16 distance in micrometres: bits * 10^6 / 2^16
Micrometres(bits) == (bits * 15625) \div 1024

\* C18: the closing echo edge of a cycle with an echo 1160 us wide and no
\* timeout returns Ok(true), leaves the state Idle and stores Ok(distance)
\* with distance within a millimetre of 1160 x 0.00017303 = 0.2007 m.
C18_EndToEnd ==
    [][(ClosingEdge /\ wrapping_sub(call'.event.t, state.rise) = U32Of(1160))
         => /\ call'.ret = "OkTrue"
            /\ state' = Idle
            /\ last'.result.kind = "Ok"
            /\ Micrometres(last'.result.dist) \in (200700 - 1000)..(200700 + 1000)]_vars

\* C19: when INTERRUPT is pending or active as ms samples the flags, ms
\* runs isr and returns the time of the overflow counter after that service
\* (one more than ms first sampled) and of a counter sample taken after it;
\* when INTERRUPT is neither, ms returns the time of its first samples, and
\* its steps change no state of the timer.
C19_MsServicesFirst ==
    [][/\ (top = "ms" /\ pc = "ms_flags" /\ pc' # pc)
          => IF pending \/ active
             THEN pc' = "isr_flags" /\ top' = "ms"
             ELSE /\ result' = [op |-> "ms", ret |-> "Ok",
                                value |-> calculate_ms(l_updates, l_cnt)]
                  /\ l_updates = updates
                  /\ <<updates, uif, pending, active>>' = <<updates, uif, pending, active>>
       /\ (top = "ms" /\ pc = "ms_cnt" /\ pc' # pc)
          => <<updates, uif, pending, active>>' = <<updates, uif, pending, active>>
       /\ (top = "ms" /\ pc = "ms_cnt2" /\ pc' # pc)
          => /\ updates = wrapping_add(l_updates, U32Of(1))
             /\ result' = [op |-> "ms", ret |-> "Ok",
                           value |-> calculate_ms(updates, cnt)]]_vars

\* ms returned after it serviced an overflow, the counter having counted on
\* while isr ran
C19_Witness ==
    /\ result.op = "ms" /\ result.ret = "Ok" /\ pc = "idle"
    /\ hw_at \in {"isr_flags", "isr_clear", "isr_unpend"}
    /\ ~uif /\ ~pending /\ ~active
    /\ updates = hw_updates
    /\ cnt = 1
    /\ result.value = calculate_ms(updates, cnt)

\* C20: whenever the strict read returns Ok(t), t is the true elapsed
\* time: the overflow counter it combined is the number of overflows the
\* hardware had made, t = (true overflows * 32768 + floor(counter / 2))
\* mod 2^32.
C20_StrictReadConsistent ==
    [][(pc = "nu_flags" /\ pc' = "idle" /\ result'.ret = "Ok")
         => /\ l_updates = hw_updates
            /\ result'.value = calculate_ms(hw_updates, l_cnt)]_vars

\* C21: in every reachable state the trigger pin is high if and only if
\* the sensor is in Measuring(AfterTriggerRising); it is low in Idle, in
\* AfterTriggerFalling and in AfterEchoRising, also after a timeout.
C21_PinHighIffTriggerRising ==
    trig <=> (state.tag = "Measuring" /\ state.sub = "AfterTriggerRising")

\* C23: the combined time is continuous across a serviced overflow: for
\* every overflow count u the time for (u + 1, counter 0) is one
\* millisecond more, modulo 2^32, than the time for (u, counter 0xffff),
\* also when u * 32768 passes 2^32 and when u + 1 wraps to 0.
C23_ContinuousAcrossUpdate ==
    (pure.op = "update" /\ pure.done) => pure.b = wrapping_add(pure.out, U32Of(1))

\* the overflow counter itself wraps to 0: from 2^32 - 1 ms to 0 ms
C23_Witness ==
    /\ pure.op = "update" /\ pure.done
    /\ pure.a = U32_MAX
    /\ pure.out = U32_MAX /\ pure.b = U32_ZERO

\* the measurement started at s is in flight
InFlight(s) == state.tag = "Measuring" /\ state.start = s

\* C22: every measurement that is started completes: when the caller keeps
\* calling trigger or process with a `now` that does not go back and
\* reaches start + TIMEOUT, every state Measuring{start: s} is followed by
\* one in which a measurement with start = s is stored and the sensor has
\* left that measurement, whatever events are delivered.
C22_MeasurementCompletes ==
    \A s \in LiveInstants :
        InFlight(s) ~> (last.some /\ last.start = s /\ ~InFlight(s))

\* a measurement never answered, timed out by the trigger of the next one
C22_Witness ==
    /\ call.op = "trigger" /\ call.polled /\ call.ret = "Ok"
    /\ last.some /\ last.result.kind = "Timeout"
    /\ state.tag = "Measuring" /\ state.start # last.start
    /\ last.start = U32Of(59) /\ call.at = <<HALF16, 30>>
====
